---- MODULE Spec2Model ----
(***************************************************************************)
(* Gateway lifecycle supervisor and traffic router of the wrapper server   *)
(* (the http-proxy variant: ensureGatewayRunning / restartGateway / the    *)
(* catch-all proxy middleware / the upgrade handler / POST /setup/api/run  *)
(* / POST /setup/api/reset).                                               *)
(*                                                                         *)
(* Scheduling model: Node runs one macrotask (an incoming request, a timer,*)
(* a child-process event, a completed fetch) and then drains every promise *)
(* continuation it made runnable before it takes the next macrotask.  One  *)
(* action of this model is one macrotask together with that drain.         *)
(*                                                                         *)
(* Time: the readiness loop is measured in poll intervals (sleep(250)).    *)
(* `elapsed` is Date.now() - start of the running waitForGatewayReady, in  *)
(* poll intervals; a sleep lasts one interval, a fetch lasts any number of *)
(* intervals (0 included) and is never aborted by the loop.                *)
(*                                                                         *)
(* fs.mkdirSync(..., {recursive: true}) in startGateway is taken to        *)
(* succeed.  A spawn failure (ENOENT, EACCES, EAGAIN) emits 'error' on the *)
(* next tick, before any other macrotask: it is part of the spawning step. *)
(***************************************************************************)
EXTENDS Integers, Sequences, FiniteSets, TLC

\* ---- bounds of the model ------------------------------------------------
MaxReq == 2
MaxProcs == 2
\* timeoutMs / poll interval (20_000 / 250 in the source), scaled down
MaxPolls == 2
\* how long past the timeout the model lets a pending fetch be observed
MaxOverrun == 1

\* the follow-up `config set` commands of a successful onboarding run
NumCfgWrites == 4

Reqs == 1..MaxReq
Procs == 1..MaxProcs

VARIABLES
  configured,       \* fs.existsSync(configPath())
  gatewayProc,      \* let gatewayProc: 0 = null, else the child it refers to
  gatewayStarting,  \* let gatewayStarting: 0 = null, else the attempt (named by the child it spawned)
  nspawn,           \* number of childProcess.spawn calls made by startGateway
  pstat,            \* per child: "unused" | "alive" | "failed" (spawn error) | "exited"
  signalled,        \* per child: SIGTERM was sent to it
  probe,            \* the running waitForGatewayReady: "none" | "fetch" | "sleep"
  elapsed,          \* Date.now() - start of the running waitForGatewayReady, in poll intervals
  attResult,        \* per attempt: "none" | "pending" | "ok" | "timeout"
  probed,           \* per child: a probe response was observed since it was spawned
  req,              \* per request: its handler's position and what it observed
  authSt,           \* the auth gate exercised on its own: password, header, verdict
  tokSt,            \* the token resolver exercised on its own: env, token file, process
  wrapper,          \* the wrapper process: "up" | "exited"
  apiSt,            \* the stateless setup and proxy handlers exercised on their own
  mk                \* the marker-file variant of the wrapper

vars == <<configured, gatewayProc, gatewayStarting, nspawn, pstat, signalled,
          probe, elapsed, attResult, probed, req, authSt, tokSt, wrapper, apiSt, mk>>

\* the gate and the resolver have no part in the supervisor's steps
Aux == <<authSt, tokSt, apiSt, mk>>

\* ---- paths --------------------------------------------------------------
SetupPrefix == <<"/", "s", "e", "t", "u", "p">>
PathApp == <<"/", "x">>
PathSetupX == SetupPrefix \o <<"x">>
PathSetupSub == SetupPrefix \o <<"/", "x">>
Paths == {PathApp, PathSetupX, PathSetupSub}

\* the upgrade handler never reads the URL of the request: one path stands
\* for all
WsPaths == {PathApp}

\* String.prototype.startsWith
StartsWith(p, pre) == Len(p) >= Len(pre) /\ SubSeq(p, 1, Len(pre)) = pre

\* express mount matching of app.use("/setup", ...): the prefix must end at a
\* path-segment boundary
UnderSetupMount(p) ==
  /\ StartsWith(p, SetupPrefix)
  /\ (Len(p) = Len(SetupPrefix) \/ p[Len(SetupPrefix) + 1] = "/")


\* ---- requests -----------------------------------------------------------
\* kind: "none" (not arrived) | "http" | "ws" | "run" | "reset" | "health"
\* pc: the handler's position, or the response it has sent
\*   "idle" | "awaiting" (await gatewayStarting) | "onboard" (await runCmd(onboard))
\*   | "cfgset" (await runCmd(config set), n left) | "grace" (await sleep(750))
\*   | "forwarded" | "redirected" | "resp503" | "destroyed" | "resp200"
\*   | "resp500" | "auth401" | "static" | "health200"
\*   | "unanswered" (the proxy failed and no response will be sent)
\* The remaining fields record what the handler saw:
\*   ens     what its ensureGatewayRunning call did ("none" before the call)
\*   during  gatewayStarting at that call
\*   confArr isConfigured() when the request arrived
\*   fwdReady, fwdConf  at proxy.web / proxy.ws: the held child had answered a
\*           probe; isConfigured()
\*   rsBase  nspawn when it called restartGateway (-1: it has not)
\*   rsRet   how restartGateway returned: "none" | "ok" | "notok" | "err"
\*   rsHeld  gatewayProc when restartGateway returned
\*   ensRes  how its ensureGatewayRunning (or restartGateway) came back
\*   out     the output runCmd(onboard) captured ("none": the tool has not run)
\*   exit0   onboard.code === 0
\*   body    the text of the response ("none": no text is modelled)
\*   respConf  isConfigured() at the response of a run that went through
\*           onboarding
\*   hConf, hGw  what GET /health reported
IdleReq ==
  [kind |-> "none", path |-> <<>>, pc |-> "idle", n |-> 0, ens |-> "none",
   during |-> 0, confArr |-> FALSE, fwdReady |-> FALSE, fwdConf |-> FALSE,
   rsBase |-> -1, rsRet |-> "none", rsHeld |-> 0, ensRes |-> "none",
   out |-> "none", exit0 |-> FALSE, body |-> "none", respConf |-> FALSE,
   hConf |-> FALSE, hGw |-> "none"]

\* what the onboarding tool may print
Outputs == {"onboarded", "tool failed"}

\* the gate has seen no request; no wrapper process has resolved a token; no
\* handler has been exercised; no marker-file wrapper has started
AuthOff == [phase |-> "off"]
TokOff == [phase |-> "off"]
ApiOff == [phase |-> "off"]
MkOff == [phase |-> "off"]

\* request ids are handed out in order of arrival
Fresh(r) == req[r].pc = "idle" /\ (IF r = 1 THEN TRUE ELSE req[r - 1].pc # "idle")

Init ==
  /\ configured \in BOOLEAN
  /\ gatewayProc = 0
  /\ gatewayStarting = 0
  /\ nspawn = 0
  /\ pstat = [p \in Procs |-> "unused"]
  /\ signalled = [p \in Procs |-> FALSE]
  /\ probe = "none"
  /\ elapsed = 0
  /\ attResult = [p \in Procs |-> "none"]
  /\ probed = [p \in Procs |-> FALSE]
  /\ req = [r \in Reqs |-> IdleReq]
  /\ authSt = AuthOff
  /\ tokSt = TokOff
  /\ wrapper = "up"
  /\ apiSt = ApiOff
  /\ mk = MkOff

\* ---- the supervisor -----------------------------------------------------
\* the synchronous prefix of ensureGatewayRunning, on isConfigured(),
\* gatewayProc and gatewayStarting as they are at the call
\* (EnsureOutcomeNoSingleFlight: the same without the `if (!gatewayStarting)`
\* test, the slip C1 has to detect)
EnsureOutcomeNoSingleFlight(cfg, gp, gs) ==
  IF ~cfg THEN "notConfigured"
  ELSE IF gp # 0 THEN "ok"
  ELSE "start"

\* (EnsureOutcomeSkipsConfigTest: the same without the isConfigured() test,
\* the slip C34 has to detect)
EnsureOutcomeSkipsConfigTest(cfg, gp, gs) ==
  IF gp # 0 THEN "ok"
  ELSE IF gs = 0 THEN "start"
  ELSE "await"

EnsureOutcome(cfg, gp, gs) ==
  IF ~cfg THEN "notConfigured"
  ELSE IF gp # 0 THEN "ok"
  ELSE IF gs = 0 THEN "start"
  ELSE "await"

\* proxy.web / proxy.ws: the request is handed to the gateway target; gp and
\* pr are gatewayProc and probed at that moment
Forward(rec, cfg, gp, pr) ==
  [rec EXCEPT !.pc = "forwarded", !.fwdReady = (gp # 0 /\ pr[gp]), !.fwdConf = cfg]

\* the catch-all middleware after `await ensureGatewayRunning()`: 503 when it
\* threw, proxy.web otherwise (the returned value is not looked at)
\* (AfterEnsureHttpIgnoresError: the same without the try/catch answer, the
\* slip C12 has to detect)
AfterEnsureHttpIgnoresError(rec, res, cfg, gp, pr) ==
  Forward(rec, cfg, gp, pr)

AfterEnsureHttp(rec, res, cfg, gp, pr) ==
  IF res = "err"
  THEN [rec EXCEPT !.pc = "resp503", !.body = "Gateway not ready"]
  ELSE Forward(rec, cfg, gp, pr)

\* (AfterEnsureWsIgnoresError: the same without the try/catch, the slip C37
\* has to detect)
AfterEnsureWsIgnoresError(rec, res, cfg, gp, pr) ==
  Forward(rec, cfg, gp, pr)

\* the upgrade handler after `await ensureGatewayRunning()`
AfterEnsureWs(rec, res, cfg, gp, pr) ==
  IF res = "err" THEN [rec EXCEPT !.pc = "destroyed"] ELSE Forward(rec, cfg, gp, pr)

\* POST /setup/api/run after `await ensureGatewayRunning()` (already
\* configured) or `await restartGateway()` (after onboarding): 200 ok:true,
\* or the catch block's 500 when it threw
AfterEnsureRun(rec, res, cfg, gp, pr) ==
  LET rec1 == IF rec.rsBase >= 0
              THEN [rec EXCEPT !.rsRet = res, !.rsHeld = gp]
              ELSE rec
  IN  [rec1 EXCEPT !.pc = IF res = "err" THEN "resp500" ELSE "resp200",
                   !.body = IF res = "err" THEN "Internal error"
                            ELSE IF rec.rsBase >= 0 THEN rec.out
                            ELSE "Already configured",
                   !.respConf = (rec.rsBase >= 0 /\ cfg)]

\* what the handler of request rec does once its ensureGatewayRunning has
\* returned ("ok", "notok") or thrown ("err")
AfterEnsure(rec, res, cfg, gp, pr) ==
  LET rec0 == [rec EXCEPT !.ensRes = res] IN
  IF rec.kind = "run" THEN AfterEnsureRun(rec0, res, cfg, gp, pr)
  ELSE IF rec.kind = "ws" THEN AfterEnsureWs(rec0, res, cfg, gp, pr)
  ELSE AfterEnsureHttp(rec0, res, cfg, gp, pr)

\* startGateway, called with gatewayProc = gp: spawn the child and attach
\* the 'error' and 'exit' handlers; a spawn failure runs the 'error' handler
\* (gatewayProc = null) on the next tick
startGateway(gp, spawnOK) ==
  IF gp # 0
  THEN /\ gatewayProc' = gp
       /\ UNCHANGED <<nspawn, pstat>>
  ELSE /\ nspawn' = nspawn + 1
       /\ pstat' = [pstat EXCEPT ![nspawn + 1] = IF spawnOK THEN "alive" ELSE "failed"]
       /\ gatewayProc' = IF spawnOK THEN nspawn + 1 ELSE 0

\* ensureGatewayRunning called by the handler of request r, whose record is
\* rec, with gatewayProc = gp at the call.  On "start" the attempt
\* (startGateway, then waitForGatewayReady up to its first fetch) begins in
\* the same step.
Ensure(r, gp, spawnOK, rec) ==
  LET oc == EnsureOutcome(configured, gp, gatewayStarting)
      rec1 == [rec EXCEPT !.ens = oc, !.during = gatewayStarting]
  IN  IF oc = "start"
      THEN /\ nspawn < MaxProcs
           /\ startGateway(gp, spawnOK)
           /\ gatewayStarting' = nspawn + 1
           /\ attResult' = [attResult EXCEPT ![nspawn + 1] = "pending"]
           /\ probe' = "fetch"
           /\ elapsed' = 0
           /\ req' = [req EXCEPT ![r] = [rec1 EXCEPT !.pc = "awaiting"]]
           /\ UNCHANGED <<configured, signalled, probed>>
      ELSE /\ gatewayProc' = gp
           /\ req' = [req EXCEPT ![r] =
                        IF oc = "await" THEN [rec1 EXCEPT !.pc = "awaiting"]
                        ELSE AfterEnsure(rec1, IF oc = "ok" THEN "ok" ELSE "notok",
                                         configured, gp, probed)]
           /\ UNCHANGED <<configured, gatewayStarting, nspawn, pstat, signalled,
                          probe, elapsed, attResult, probed>>

\* the attempt settles: .finally clears gatewayStarting and every handler
\* awaiting it continues
Settle(ok, pr) ==
  /\ gatewayStarting' = 0
  /\ attResult' = [attResult EXCEPT ![gatewayStarting] = IF ok THEN "ok" ELSE "timeout"]
  /\ probe' = "none"
  /\ elapsed' = 0
  /\ req' = [r \in Reqs |->
               IF req[r].pc = "awaiting"
               THEN AfterEnsure(req[r], IF ok THEN "ok" ELSE "err", configured, gatewayProc, pr)
               ELSE req[r]]

\* waitForGatewayReady: the pending fetch gets a response (any status)
ProbeAnswer ==
  /\ wrapper = "up"
  /\ probe = "fetch"
  /\ \E p \in Procs : pstat[p] = "alive"
  /\ probed' = [p \in Procs |-> probed[p] \/ p <= nspawn]
  /\ Settle(TRUE, probed')
  /\ UNCHANGED <<configured, gatewayProc, nspawn, pstat, signalled>>
  /\ UNCHANGED <<wrapper, Aux>>

\* the pending fetch rejects (connection refused, reset): sleep(250)
ProbeRefuse ==
  /\ wrapper = "up"
  /\ probe = "fetch"
  /\ probe' = "sleep"
  /\ UNCHANGED <<configured, gatewayProc, gatewayStarting, nspawn, pstat, signalled,
                 elapsed, attResult, probed, req>>
  /\ UNCHANGED <<wrapper, Aux>>

\* a poll interval passes while the fetch is still pending
ProbePending ==
  /\ wrapper = "up"
  /\ probe = "fetch"
  /\ elapsed < MaxPolls + MaxOverrun
  /\ elapsed' = elapsed + 1
  /\ UNCHANGED <<configured, gatewayProc, gatewayStarting, nspawn, pstat, signalled,
                 probe, attResult, probed, req>>
  /\ UNCHANGED <<wrapper, Aux>>

\* the loop condition Date.now() - start < timeoutMs
WithinTimeout(e) == e < MaxPolls

\* sleep(250) is over: the loop condition is evaluated; the next fetch is
\* issued, or waitForGatewayReady returns false and the attempt throws
SleepDone ==
  /\ wrapper = "up"
  /\ probe = "sleep"
  /\ LET e == IF elapsed < MaxPolls + MaxOverrun THEN elapsed + 1 ELSE elapsed IN
       IF WithinTimeout(e)
       THEN /\ probe' = "fetch"
            /\ elapsed' = e
            /\ UNCHANGED <<gatewayStarting, attResult, req>>
       ELSE Settle(FALSE, probed)
  /\ UNCHANGED <<configured, gatewayProc, nspawn, pstat, signalled, probed>>
  /\ UNCHANGED <<wrapper, Aux>>

\* (ProcExitKeepsHandle: an 'exit' handler that forgets `gatewayProc = null`,
\* the slip C7 has to detect)
ProcExitKeepsHandle(p) ==
  /\ pstat[p] = "alive"
  /\ pstat' = [pstat EXCEPT ![p] = "exited"]
  /\ UNCHANGED <<configured, gatewayProc, gatewayStarting, nspawn, signalled, probe,
                 elapsed, attResult, probed, req>>
  /\ UNCHANGED <<wrapper, Aux>>

\* gatewayProc.on("exit"): the child p has exited
ProcExit(p) ==
  /\ pstat[p] = "alive"
  /\ pstat' = [pstat EXCEPT ![p] = "exited"]
  /\ gatewayProc' = 0
  /\ UNCHANGED <<configured, gatewayStarting, nspawn, signalled, probe, elapsed,
                 attResult, probed, req>>
  /\ UNCHANGED <<wrapper, Aux>>

\* ---- the router and the setup endpoints ---------------------------------
Others == <<configured, gatewayProc, gatewayStarting, nspawn, pstat, signalled,
            probe, elapsed, attResult, probed>>

\* the handler of r answers without touching the supervisor
Respond(r, rec, pc) ==
  /\ req' = [req EXCEPT ![r] = [rec EXCEPT !.pc = pc]]
  /\ UNCHANGED Others

\* the first test of the catch-all middleware
RedirectsToSetup(cfg, path) == ~cfg /\ ~StartsWith(path, SetupPrefix)

\* app.use(async (req, res) => ...): redirect, or ensureGatewayRunning when
\* configured, then proxy.web
CatchAll(r, spawnOK, rec) ==
  IF RedirectsToSetup(configured, rec.path)
  THEN Respond(r, rec, "redirected")
  ELSE IF configured
  THEN Ensure(r, gatewayProc, spawnOK, rec)
  ELSE /\ req' = [req EXCEPT ![r] = Forward(rec, configured, gatewayProc, probed)]
       /\ UNCHANGED Others

\* an HTTP request that is neither GET /health nor a setup API route.  Under
\* the /setup mount it passes requireSetupAuth (auth) and express.static
\* (hit: a file is served) before it can fall through to the catch-all.
HttpArrive(r, path, auth, hit, spawnOK) ==
  /\ wrapper = "up"
  /\ Fresh(r)
  /\ LET rec == [req[r] EXCEPT !.kind = "http", !.path = path, !.confArr = configured] IN
       IF UnderSetupMount(path) /\ ~auth THEN Respond(r, rec, "auth401")
       ELSE IF UnderSetupMount(path) /\ hit THEN Respond(r, rec, "static")
       ELSE CatchAll(r, spawnOK, rec)
  /\ UNCHANGED <<wrapper, Aux>>

\* server.on("upgrade")
WsArrive(r, path, spawnOK) ==
  /\ wrapper = "up"
  /\ Fresh(r)
  /\ LET rec == [req[r] EXCEPT !.kind = "ws", !.path = path, !.confArr = configured] IN
       IF ~configured THEN Respond(r, rec, "destroyed")
       ELSE Ensure(r, gatewayProc, spawnOK, rec)
  /\ UNCHANGED <<wrapper, Aux>>

\* (HealthArriveEnsures: a health handler that goes through
\* ensureGatewayRunning first, the slip C13 has to detect)
HealthArriveEnsures(r) ==
  /\ wrapper = "up"
  /\ Fresh(r)
  /\ \E spawnOK \in BOOLEAN :
       Ensure(r, gatewayProc, spawnOK, [req[r] EXCEPT !.kind = "health", !.confArr = configured])
  /\ UNCHANGED <<wrapper, Aux>>

\* app.get("/health"): {ok: true, configured: isConfigured(),
\* gateway: gatewayProc ? "running" : "stopped"}
HealthArrive(r) ==
  /\ wrapper = "up"
  /\ Fresh(r)
  /\ Respond(r, [req[r] EXCEPT !.kind = "health", !.confArr = configured,
                               !.hConf = configured,
                               !.hGw = IF gatewayProc # 0 THEN "running" ELSE "stopped"],
             "health200")
  /\ UNCHANGED <<wrapper, Aux>>

\* proxy.on("error"): the connection to the gateway failed (refused, reset)
\* after proxy.web was called; the listener writes the error to the log and
\* sends nothing, and http-proxy leaves a response to the listener
ProxyError(r) ==
  /\ wrapper = "up"
  /\ req[r].kind = "http"
  /\ req[r].pc = "forwarded"
  /\ Respond(r, req[r], "unanswered")
  /\ UNCHANGED <<wrapper, Aux>>

\* process.on("SIGTERM"): SIGTERM to the held child, then process.exit(0)
\* in the same handler.  What the process held in memory is gone with it;
\* the children and the configuration file remain.
WrapperSigterm ==
  /\ wrapper = "up"
  /\ wrapper' = "exited"
  /\ signalled' = IF gatewayProc # 0
                  THEN [signalled EXCEPT ![gatewayProc] = TRUE]
                  ELSE signalled
  /\ gatewayProc' = 0
  /\ gatewayStarting' = 0
  /\ probe' = "none"
  /\ elapsed' = 0
  /\ req' = [r \in Reqs |-> IdleReq]
  /\ UNCHANGED <<configured, nspawn, pstat, attResult, probed>>
  /\ UNCHANGED Aux

\* (ResetArriveStopsGateway: a reset that also sends SIGTERM to the held
\* child and drops the handle, the slip C35 has to detect)
ResetArriveStopsGateway(r, auth, rmOK) ==
  /\ wrapper = "up"
  /\ Fresh(r)
  /\ LET rec == [req[r] EXCEPT !.kind = "reset", !.confArr = configured] IN
       req' = [req EXCEPT ![r] =
                 [rec EXCEPT !.pc = IF ~auth THEN "auth401"
                                    ELSE IF rmOK THEN "resp200" ELSE "resp500"]]
  /\ configured' = IF auth /\ rmOK THEN FALSE ELSE configured
  /\ signalled' = IF auth /\ gatewayProc # 0
                  THEN [signalled EXCEPT ![gatewayProc] = TRUE]
                  ELSE signalled
  /\ gatewayProc' = IF auth THEN 0 ELSE gatewayProc
  /\ UNCHANGED <<gatewayStarting, nspawn, pstat, probe, elapsed, attResult, probed>>
  /\ UNCHANGED <<wrapper, Aux>>

\* POST /setup/api/reset
ResetArrive(r, auth, rmOK) ==
  /\ wrapper = "up"
  /\ Fresh(r)
  /\ LET rec == [req[r] EXCEPT !.kind = "reset", !.confArr = configured] IN
       req' = [req EXCEPT ![r] =
                 [rec EXCEPT !.pc = IF ~auth THEN "auth401"
                                    ELSE IF rmOK THEN "resp200" ELSE "resp500"]]
  /\ configured' = IF auth /\ rmOK THEN FALSE ELSE configured
  /\ UNCHANGED <<gatewayProc, gatewayStarting, nspawn, pstat, signalled,
                 probe, elapsed, attResult, probed>>
  /\ UNCHANGED <<wrapper, Aux>>

\* (RunArriveAlwaysOnboards: a run handler without the `if (isConfigured())`
\* test, the slip C16 has to detect)
RunArriveAlwaysOnboards(r, auth, spawnOK) ==
  /\ wrapper = "up"
  /\ Fresh(r)
  /\ LET rec == [req[r] EXCEPT !.kind = "run", !.confArr = configured] IN
       IF ~auth THEN Respond(r, rec, "auth401")
       ELSE Respond(r, rec, "onboard")
  /\ UNCHANGED <<wrapper, Aux>>

\* POST /setup/api/run: already configured -> ensureGatewayRunning;
\* otherwise runCmd(onboard) is started
RunArrive(r, auth, spawnOK) ==
  /\ wrapper = "up"
  /\ Fresh(r)
  /\ LET rec == [req[r] EXCEPT !.kind = "run", !.confArr = configured] IN
       IF ~auth THEN Respond(r, rec, "auth401")
       ELSE IF configured THEN Ensure(r, gatewayProc, spawnOK, rec)
       ELSE Respond(r, rec, "onboard")
  /\ UNCHANGED <<wrapper, Aux>>

\* the onboarding tool, while it runs, creates the configuration file
OnboardWritesConfig(r) ==
  /\ wrapper = "up"
  /\ req[r].pc = "onboard"
  /\ ~configured
  /\ configured' = TRUE
  /\ UNCHANGED <<gatewayProc, gatewayStarting, nspawn, pstat, signalled,
                 probe, elapsed, attResult, probed, req>>
  /\ UNCHANGED <<wrapper, Aux>>

\* (OnboardExitTrustsExitCode: ok = onboard.code === 0 alone, the slip C15
\* has to detect)
OnboardExitTrustsExitCode(r, code0, out) ==
  /\ wrapper = "up"
  /\ req[r].pc = "onboard"
  /\ LET rec == [req[r] EXCEPT !.out = out, !.exit0 = code0] IN
       IF code0
       THEN Respond(r, [rec EXCEPT !.n = NumCfgWrites, !.out = "onboarded"], "cfgset")
       ELSE Respond(r, [rec EXCEPT !.body = out, !.respConf = configured], "resp500")
  /\ UNCHANGED <<wrapper, Aux>>

\* runCmd(onboard) resolves with the captured output:
\* ok = onboard.code === 0 && isConfigured(); when not ok the handler answers
\* 500 {ok: false, output: onboard.output + extra}, extra being "".  On the
\* ok path the output is followed by the text of the follow-up commands; the
\* model keeps one value for it.
OnboardExit(r, code0, out) ==
  /\ wrapper = "up"
  /\ req[r].pc = "onboard"
  /\ LET rec == [req[r] EXCEPT !.out = out, !.exit0 = code0] IN
       IF code0 /\ configured
       THEN Respond(r, [rec EXCEPT !.n = NumCfgWrites, !.out = "onboarded"], "cfgset")
       ELSE Respond(r, [rec EXCEPT !.body = out, !.respConf = configured], "resp500")
  /\ UNCHANGED <<wrapper, Aux>>

\* restartGateway
RestartGateway(r, spawnOK, rec) ==
  LET rec1 == [rec EXCEPT !.rsBase = nspawn] IN
  IF gatewayProc # 0
  THEN /\ signalled' = [signalled EXCEPT ![gatewayProc] = TRUE]
       /\ req' = [req EXCEPT ![r] = [rec1 EXCEPT !.pc = "grace"]]
       /\ UNCHANGED <<configured, gatewayProc, gatewayStarting, nspawn, pstat,
                      probe, elapsed, attResult, probed>>
  ELSE Ensure(r, gatewayProc, spawnOK, rec1)

\* a follow-up runCmd(config set ...) resolves; after the last one the
\* handler calls restartGateway
CfgSetDone(r, spawnOK) ==
  /\ wrapper = "up"
  /\ req[r].pc = "cfgset"
  /\ IF req[r].n > 1
     THEN Respond(r, [req[r] EXCEPT !.n = req[r].n - 1], "cfgset")
     ELSE RestartGateway(r, spawnOK, [req[r] EXCEPT !.n = 0])
  /\ UNCHANGED <<wrapper, Aux>>

\* restartGateway after await sleep(750): gatewayProc = null, then
\* ensureGatewayRunning
GraceEnd(r, spawnOK) ==
  /\ wrapper = "up"
  /\ req[r].pc = "grace"
  /\ Ensure(r, 0, spawnOK, req[r])
  /\ UNCHANGED <<wrapper, Aux>>

Next ==
  \/ \E r \in Reqs, path \in Paths, auth \in BOOLEAN, hit \in BOOLEAN, spawnOK \in BOOLEAN :
       HttpArrive(r, path, auth, hit, spawnOK)
  \/ \E r \in Reqs, path \in WsPaths, spawnOK \in BOOLEAN : WsArrive(r, path, spawnOK)
  \/ \E r \in Reqs : HealthArrive(r)
  \/ \E r \in Reqs : ProxyError(r)
  \/ WrapperSigterm
  \/ \E r \in Reqs, auth \in BOOLEAN, rmOK \in BOOLEAN : ResetArrive(r, auth, rmOK)
  \/ \E r \in Reqs, auth \in BOOLEAN, spawnOK \in BOOLEAN : RunArrive(r, auth, spawnOK)
  \/ \E r \in Reqs : OnboardWritesConfig(r)
  \/ \E r \in Reqs, code0 \in BOOLEAN, out \in Outputs : OnboardExit(r, code0, out)
  \/ \E r \in Reqs, spawnOK \in BOOLEAN : CfgSetDone(r, spawnOK)
  \/ \E r \in Reqs, spawnOK \in BOOLEAN : GraceEnd(r, spawnOK)
  \/ ProbeAnswer
  \/ ProbeRefuse
  \/ ProbePending
  \/ SleepDone
  \/ \E p \in Procs : ProcExit(p)

Spec == Init /\ [][Next]_vars

\* ---- notions the claims use ----------------------------------------------
Alive == {p \in Procs : pstat[p] = "alive"}

\* Stopped: configured, no process handle, no start attempt in flight
Stopped == configured /\ gatewayProc = 0 /\ gatewayStarting = 0

\* in this step the handler of r makes its ensureGatewayRunning call
CallsEnsure(r) == req[r].ens = "none" /\ req'[r].ens # "none"

\* in this step r's restartGateway comes back from sleep(750)
LeavesGrace(r) == req[r].pc = "grace" /\ req'[r].pc # "grace"

\* C1: ensureRunning calls made while Stopped spawn exactly one child; a
\* call made while the attempt is in flight or while the gateway is held
\* spawns none.  (A step spawns at most one child, and only when configured,
\* with no attempt in flight and with no handle at the call: gatewayProc is
\* null, or restartGateway has just cleared it.)
C1_SingleSpawn ==
  [][ /\ (nspawn' # nspawn =>
            /\ nspawn' = nspawn + 1
            /\ configured
            /\ gatewayStarting = 0
            /\ gatewayStarting' = nspawn'
            /\ (gatewayProc = 0 \/ \E r \in Reqs : LeavesGrace(r)))
      /\ \A r \in Reqs :
           (CallsEnsure(r) /\ Stopped) => (nspawn' = nspawn + 1 /\ req'[r].ens = "start")
    ]_vars

\* one call spawned, a later call arrived during that attempt and spawned none
C1_Witness ==
  \E r1, r2 \in Reqs :
    /\ req[r1].ens = "start"
    /\ req[r2].ens \in {"ok", "await"}
    /\ req[r2].during # 0
    /\ nspawn = 1

\* C2: a call that arrives while an attempt is in flight awaits that attempt:
\* it has not returned success unless that attempt's readiness check
\* succeeded, and it gets the error if that attempt timed out.
C2_AwaitsInFlightAttempt ==
  \A r \in Reqs :
    req[r].during # 0 =>
      /\ (req[r].pc \in {"forwarded", "resp200"} => attResult[req[r].during] = "ok")
      /\ (attResult[req[r].during] = "timeout" => req[r].pc \in {"resp503", "destroyed", "resp500"})

\* C3: after a readiness timeout the supervisor is Stopped: the handle of the
\* attempt's child is discarded (so that the next call spawns afresh).
C3_TimeoutDiscardsHandle ==
  \A p \in Procs : attResult[p] = "timeout" => gatewayProc # p

\* C4: at most one spawned gateway child is alive, and the handle refers to it.
C4_OneLiveChild ==
  /\ Cardinality(Alive) <= 1
  /\ \A p \in Alive : gatewayProc = p

\* C5: while configured, a request or upgrade is forwarded only when the held
\* gateway process has answered a probe since it was spawned.
C5_ForwardOnlyWhenReady ==
  \A r \in Reqs : (req[r].pc = "forwarded" /\ req[r].fwdConf) => req[r].fwdReady

\* C6: whenever restartGateway returns success, the supervisor holds a child
\* spawned after the restart call began.
C6_RestartHoldsFreshChild ==
  \A r \in Reqs : req[r].rsRet = "ok" => req[r].rsHeld > req[r].rsBase

\* C7: the exit of the held, ready gateway leaves the supervisor Stopped at
\* once and spawns nothing; a child is only ever spawned by a handler's
\* ensureGatewayRunning call; and the next proxied request or upgrade that
\* reaches the catch-all while configured and Stopped spawns a fresh child.
C7_ExitStopsNextRequestHeals ==
  [][ /\ \A p \in Procs :
           (pstat[p] = "alive" /\ pstat'[p] = "exited" /\ gatewayProc = p /\ gatewayStarting = 0)
             => (gatewayProc' = 0 /\ gatewayStarting' = 0 /\ nspawn' = nspawn)
      /\ (nspawn' # nspawn => \E r \in Reqs : CallsEnsure(r) /\ req'[r].ens = "start")
      /\ \A r \in Reqs :
           ( /\ req[r].pc = "idle"
             /\ req'[r].kind \in {"http", "ws"}
             /\ req'[r].pc \notin {"idle", "auth401", "static"}
             /\ Stopped )
             => (nspawn' = nspawn + 1 /\ req'[r].pc = "awaiting" /\ req'[r].ens = "start")
    ]_vars

\* a gateway that was declared ready exited on its own, and a later proxied
\* request spawned the second child
C7_Witness ==
  \E r \in Reqs :
    /\ attResult[1] = "ok" /\ pstat[1] = "exited" /\ ~signalled[1]
    /\ req[r].kind \in {"http", "ws"} /\ req[r].ens = "start"
    /\ gatewayStarting = 2 /\ gatewayProc = 2

\* C8: an attempt whose spawn failed does not end in success for its callers.
C8_SpawnErrorReported ==
  \A p \in Procs : pstat[p] = "failed" => attResult[p] # "ok"

\* C9: a start attempt never stays in flight past the readiness timeout.
C9_WaitBoundedByTimeout ==
  gatewayStarting # 0 => elapsed <= MaxPolls

\* C10: a request whose path is not under the setup surface is redirected
\* when it arrives unconfigured, and is forwarded when it arrives configured
\* with the gateway ready.
C10_RouterDecision ==
  \A r \in Reqs :
    (req[r].kind = "http" /\ ~UnderSetupMount(req[r].path)) =>
      /\ (~req[r].confArr => req[r].pc = "redirected")
      /\ ((req[r].confArr /\ req[r].ens = "ok") => req[r].pc = "forwarded")

\* in this step request r arrives
Arrives(r) == req[r].pc = "idle" /\ req'[r].pc # "idle"

\* r has been answered by the run handler
RunAnswered(r) == req[r].kind = "run" /\ req[r].pc \in {"resp200", "resp500"}

\* C11: the router decides on isConfigured() as it is when the request
\* arrives: a non-setup request that arrives right after a successful reset,
\* with the file still absent, is redirected to setup, and a request that
\* arrives with the file present is routed to the gateway (it goes through
\* ensureGatewayRunning), whatever earlier requests saw.
C11_FreshRouting ==
  \A r \in Reqs :
    (req[r].kind = "http" /\ ~UnderSetupMount(req[r].path)) =>
      /\ (IF r = 1 THEN TRUE
          ELSE (req[r - 1].kind = "reset" /\ req[r - 1].pc = "resp200" /\ ~req[r].confArr)
                 => req[r].pc = "redirected")
      /\ (req[r].confArr => req[r].ens # "none")

\* C12: a proxied request whose ensureGatewayRunning threw or reported not-ok
\* is answered 503 with the diagnostic text, and a proxied request that was
\* forwarded while configured had an ensureGatewayRunning that succeeded.
C12_EnsureFailureIs503 ==
  \A r \in Reqs :
    req[r].kind = "http" =>
      /\ (req[r].ensRes \in {"err", "notok"} =>
            (req[r].pc = "resp503" /\ req[r].body = "Gateway not ready"))
      /\ ((req[r].pc = "forwarded" /\ req[r].confArr) => req[r].ensRes = "ok")

\* a proxied request waited for an attempt that timed out and got the 503
C12_Witness ==
  \E r \in Reqs :
    /\ req[r].kind = "http" /\ req[r].ensRes = "err" /\ req[r].pc = "resp503"
    /\ req[r].during # 0 /\ attResult[req[r].during] = "timeout"

\* C13: GET /health answers in the step it arrives, in any state, and that
\* step changes nothing but the answer: nothing is spawned, no attempt is
\* created or awaited, the handle and the configuration file stay as they
\* are; it reports configured = the file is present and gateway = "running"
\* exactly when the handle is held.
C13_HealthNoSideEffects ==
  [][ \A r \in Reqs :
        (Arrives(r) /\ req'[r].kind = "health") =>
          /\ UNCHANGED Others
          /\ req'[r].pc = "health200"
          /\ req'[r].ens = "none"
          /\ req'[r].hConf = configured
          /\ (req'[r].hGw = "running") = (gatewayProc # 0)
          /\ (req'[r].hGw = "stopped") = (gatewayProc = 0)
          /\ \A q \in Reqs \ {r} : req'[q] = req[q]
    ]_vars

\* health answered "running" at once while a start attempt was in flight
C13_Witness ==
  \E r \in Reqs :
    /\ req[r].kind = "health" /\ req[r].pc = "health200"
    /\ req[r].hGw = "running" /\ req[r].hConf
    /\ gatewayStarting # 0 /\ probe # "none"

\* C14: an onboarding run whose tool exited 0 with the configuration file
\* present, and whose restartGateway came back successfully (the gateway
\* answered the readiness probe), answers ok:true with isConfigured() true
\* and the supervisor holding the gateway process, whatever
\* proxied, upgrade or health request arrived meanwhile (runs with a
\* concurrent reset are left aside here).
C14_OnboardingEndsReady ==
  \A r \in Reqs :
    (req[r].kind = "run" /\ req[r].rsRet = "ok" /\ \A q \in Reqs : req[q].kind # "reset") =>
      /\ req[r].pc = "resp200"
      /\ req[r].respConf
      /\ req[r].rsHeld # 0

\* C15 as stated: a run whose tool exited non-zero, or exited 0 without the
\* configuration file, answers ok:false and isConfigured() is false then.
C15_FailureLeavesUnconfigured ==
  \A r \in Reqs :
    (RunAnswered(r) /\ req[r].out # "none" /\ req[r].rsBase = -1) =>
      (req[r].pc = "resp500" /\ ~req[r].respConf)

\* C15, amended: when runCmd(onboard) resolves, the run goes on to the
\* follow-up writes exactly when the tool exited 0 and the configuration
\* file exists; otherwise it answers at once ok:false with the captured
\* output verbatim, makes no follow-up write, does not call restartGateway,
\* spawns and signals nothing, and leaves the configuration file as the
\* tool left it (present if the tool created it before failing).
C15_FailureReportsVerbatim ==
  [][ \A r \in Reqs :
        (req[r].pc = "onboard" /\ req'[r].pc # "onboard" /\ wrapper' = "up") =>
          IF req'[r].exit0 /\ configured
          THEN req'[r].pc = "cfgset" /\ req'[r].n = NumCfgWrites
          ELSE /\ req'[r].pc = "resp500"
               /\ req'[r].out \in Outputs
               /\ req'[r].body = req'[r].out
               /\ req'[r].n = 0
               /\ req'[r].rsBase = -1
               /\ req'[r].ens = "none"
               /\ req'[r].respConf = configured
               /\ UNCHANGED Others
    ]_vars

\* the tool exited 0 without creating the file: ok:false, its output verbatim
C15_Witness ==
  \E r \in Reqs :
    /\ req[r].kind = "run" /\ req[r].pc = "resp500" /\ req[r].rsBase = -1
    /\ req[r].exit0 /\ ~req[r].respConf /\ req[r].body = "onboarded"

\* C16 as stated: a run requested while configured reports success.
C16_AlreadyConfiguredSucceeds ==
  \A r \in Reqs :
    (RunAnswered(r) /\ req[r].confArr) => req[r].pc = "resp200"

\* C16, amended: a run requested while configured never invokes the
\* onboarding tool or a configuration-set command and its arrival leaves the
\* configuration file as it is; it calls ensureGatewayRunning and answers
\* ok:true "Already configured" when that succeeds, and 500 when the start
\* attempt it waited for fails.
C16_AlreadyConfiguredNoOp ==
  [][ \A r \in Reqs :
        /\ (Arrives(r) /\ req'[r].kind = "run") => configured' = configured
        /\ (req'[r].kind = "run" /\ req'[r].confArr /\ req'[r].pc # "auth401") =>
             /\ req'[r].pc \in {"awaiting", "resp200", "resp500"}
             /\ req'[r].out = "none" /\ req'[r].n = 0 /\ req'[r].rsBase = -1
             /\ req'[r].ens \in {"ok", "start", "await"}
             /\ (req'[r].pc = "resp200") =
                  (req'[r].ensRes = "ok" /\ req'[r].body = "Already configured")
             /\ (req'[r].pc = "resp500") =
                  (req'[r].ensRes = "err" /\ req'[r].body = "Internal error")
    ]_vars

\* a run requested while configured and Stopped started the gateway and
\* answered "Already configured"
C16_Witness ==
  \E r \in Reqs :
    /\ req[r].kind = "run" /\ req[r].confArr /\ req[r].ens = "start"
    /\ req[r].pc = "resp200" /\ req[r].body = "Already configured"
    /\ req[r].out = "none"

\* ---- the auth gate of the setup surface ---------------------------------
\* Two gates exist in the repository: requireSetupAuth (the http-proxy
\* variant) and createAuthMiddleware (the marker-file variant, the file the
\* Dockerfile starts).  Both are exercised here on the same environment and
\* the same Authorization headers.  Strings are sequences of characters.

\* an environment variable: unset, or set to a string
Unset == [set |-> FALSE, val |-> <<>>]
Val(str) == [set |-> TRUE, val |-> str]

IsSpace(c) == c \in {" ", "\t", "\n"}

RECURSIVE TrimStart(_)
TrimStart(str) == IF str # <<>> /\ IsSpace(Head(str)) THEN TrimStart(Tail(str)) ELSE str

RECURSIVE TrimEnd(_)
TrimEnd(str) ==
  IF str # <<>> /\ IsSpace(str[Len(str)])
  THEN TrimEnd(SubSeq(str, 1, Len(str) - 1))
  ELSE str

\* String.prototype.trim
Trim(str) == TrimEnd(TrimStart(str))

\* String.prototype.indexOf for one character, counted from 1 (0: not found)
IndexOf(str, c) ==
  IF \E i \in 1..Len(str) : str[i] = c
  THEN CHOOSE i \in 1..Len(str) : str[i] = c /\ \A j \in 1..(i - 1) : str[j] # c
  ELSE 0

\* header.split(" ")[0] and header.split(" ")[1] (<<>> when there is none)
SplitScheme(h) ==
  LET i == IndexOf(h, " ") IN IF i = 0 THEN h ELSE SubSeq(h, 1, i - 1)

SplitEncoded(h) ==
  LET i == IndexOf(h, " ") IN
  IF i = 0 THEN <<>>
  ELSE LET rest == SubSeq(h, i + 1, Len(h))
           j == IndexOf(rest, " ")
       IN  IF j = 0 THEN rest ELSE SubSeq(rest, 1, j - 1)

\* Buffer.from(encoded, "base64").toString("utf8"), for encodings of
\* printable ASCII text (Ascii[b - 31] is the character with code b; the
\* grave accent, code 96, is written "grave")
B64Alphabet ==
  <<
    "A", "B", "C", "D", "E", "F", "G", "H", "I", "J", "K", "L", "M", "N", "O", "P",
    "Q", "R", "S", "T", "U", "V", "W", "X", "Y", "Z", "a", "b", "c", "d", "e", "f",
    "g", "h", "i", "j", "k", "l", "m", "n", "o", "p", "q", "r", "s", "t", "u", "v",
    "w", "x", "y", "z", "0", "1", "2", "3", "4", "5", "6", "7", "8", "9", "+", "/"
  >>

Ascii ==
  <<
    " ", "!", "\"", "#", "$", "%", "&", "'", "(", ")", "*", "+", ",", "-", ".", "/",
    "0", "1", "2", "3", "4", "5", "6", "7", "8", "9", ":", ";", "<", "=", ">", "?",
    "@", "A", "B", "C", "D", "E", "F", "G", "H", "I", "J", "K", "L", "M", "N", "O",
    "P", "Q", "R", "S", "T", "U", "V", "W", "X", "Y", "Z", "[", "\\", "]", "^", "_",
    "grave", "a", "b", "c", "d", "e", "f", "g", "h", "i", "j", "k", "l", "m", "n", "o",
    "p", "q", "r", "s", "t", "u", "v", "w", "x", "y", "z", "{", "|", "}", "~"
  >>

B64Value(c) == (CHOOSE i \in 1..Len(B64Alphabet) : B64Alphabet[i] = c) - 1

\* the characters before the first "=": decoding stops at the padding
B64Data(enc) ==
  LET i == IndexOf(enc, "=") IN IF i = 0 THEN enc ELSE SubSeq(enc, 1, i - 1)

Pow2(k) == IF k = 0 THEN 1 ELSE IF k = 2 THEN 4 ELSE 16

\* byte number i (from 0) of the decoded data
B64Byte(data, i) ==
  LET q == (8 * i) \div 6
      off == (8 * i) % 6
      pair == B64Value(data[q + 1]) * 64 + B64Value(data[q + 2])
  IN  (pair \div Pow2(4 - off)) % 256

Chr(b) == IF b >= 32 /\ b <= 126 THEN Ascii[b - 31] ELSE "?"

B64Decode(enc) ==
  LET data == B64Data(enc)
      nbytes == (Len(data) * 6) \div 8
  IN  [i \in 1..nbytes |-> Chr(B64Byte(data, i - 1))]

\* requireSetupAuth, with SETUP_PASSWORD = process.env.SETUP_PASSWORD?.trim()
\* taken at module load: "500" | "401+challenge" | "next"
requireSetupAuth(pwEnv, h) ==
  LET SETUP_PASSWORD == IF pwEnv.set THEN Trim(pwEnv.val) ELSE <<>>
      scheme == SplitScheme(h)
      encoded == SplitEncoded(h)
      decoded == B64Decode(encoded)
      idx == IndexOf(decoded, ":")
      password == IF idx >= 1 THEN SubSeq(decoded, idx + 1, Len(decoded)) ELSE <<>>
  IN  IF SETUP_PASSWORD = <<>> THEN "500"
      ELSE IF scheme # <<"B", "a", "s", "i", "c">> \/ encoded = <<>> THEN "401+challenge"
      ELSE IF password # SETUP_PASSWORD THEN "401+challenge"
      ELSE "next"

\* the middleware createAuthMiddleware returns, with
\* SETUP_PASSWORD = process.env.SETUP_PASSWORD read on each request.
\* decoded.slice(0, colonIdx) with colonIdx = -1 drops the last character.
createAuthMiddleware(pwEnv, h) ==
  LET SETUP_PASSWORD == IF pwEnv.set THEN pwEnv.val ELSE <<>>
      scheme == SplitScheme(h)
      encoded == SplitEncoded(h)
      decoded == B64Decode(encoded)
      colonIdx == IndexOf(decoded, ":")
      user == IF colonIdx >= 1 THEN SubSeq(decoded, 1, colonIdx - 1)
              ELSE SubSeq(decoded, 1, Len(decoded) - 1)
      pass == IF colonIdx >= 1 THEN SubSeq(decoded, colonIdx + 1, Len(decoded))
              ELSE decoded
  IN  IF SETUP_PASSWORD = <<>> THEN "next"
      ELSE IF scheme # <<"B", "a", "s", "i", "c">> \/ encoded = <<>> THEN "401+challenge"
      ELSE IF user = <<"a", "d", "m", "i", "n">> /\ pass = SETUP_PASSWORD THEN "next"
      ELSE "401+challenge"

\* the values of SETUP_PASSWORD the deployment may have
PwEnvs ==
  {Unset, Val(<<>>), Val(<<" ">>), Val(<<"s">>), Val(<<"t">>), Val(<<"s", " ">>),
   Val(<<"a", "d", "m", "i", "n", "s">>)}

\* Authorization headers: none, a scheme alone, another scheme, and Basic
\* credentials
BasicSp == <<"B", "a", "s", "i", "c", " ">>
HdrNone == <<>>
HdrSchemeOnly == <<"B", "a", "s", "i", "c">>
HdrBearer == <<"B", "e", "a", "r", "e", "r", " ", "s">>
\* "admin:s"
HdrAdminS == BasicSp \o <<"Y", "W", "R", "t", "a", "W", "4", "6", "c", "w", "=", "=">>
\* "admin:t"
HdrAdminT == BasicSp \o <<"Y", "W", "R", "t", "a", "W", "4", "6", "d", "A", "=", "=">>
\* "bob:s"
HdrBobS == BasicSp \o <<"Y", "m", "9", "i", "O", "n", "M", "=">>
\* "bob:t"
HdrBobT == BasicSp \o <<"Y", "m", "9", "i", "O", "n", "Q", "=">>
\* ":s"
HdrEmptyUserS == BasicSp \o <<"O", "n", "M", "=">>
\* "s"
HdrBareS == BasicSp \o <<"c", "w", "=", "=">>
\* "admin"
HdrBareAdmin == BasicSp \o <<"Y", "W", "R", "t", "a", "W", "4", "=">>
\* "admin:"
HdrAdminNoPass == BasicSp \o <<"Y", "W", "R", "t", "a", "W", "4", "6">>
\* "admin:s "
HdrAdminSPadded == BasicSp \o <<"Y", "W", "R", "t", "a", "W", "4", "6", "c", "y", "A", "=">>
\* "admins"
HdrBareAdmins == BasicSp \o <<"Y", "W", "R", "t", "a", "W", "5", "z">>
\* "Basic " followed by nothing
HdrBasicEmpty == BasicSp
Headers ==
  {HdrNone, HdrSchemeOnly, HdrBearer,
   HdrAdminS, HdrAdminT, HdrBobS, HdrBobT, HdrEmptyUserS,
   HdrBareS, HdrBareAdmin, HdrAdminNoPass, HdrAdminSPadded,
   HdrBareAdmins, HdrBasicEmpty}

\* a request to a protected route passes the gate of one of the two variants
RequireSetupAuthStep(h) ==
  /\ authSt.phase \in {"ready", "done"}
  /\ authSt' = [authSt EXCEPT !.phase = "done", !.gate = "requireSetupAuth", !.hdr = h,
                              !.res = requireSetupAuth(authSt.pwEnv, h)]
  /\ UNCHANGED <<Others, req, wrapper, tokSt, apiSt, mk>>

CreateAuthMiddlewareStep(h) ==
  /\ authSt.phase \in {"ready", "done"}
  /\ authSt' = [authSt EXCEPT !.phase = "done", !.gate = "createAuthMiddleware", !.hdr = h,
                              !.res = createAuthMiddleware(authSt.pwEnv, h)]
  /\ UNCHANGED <<Others, req, wrapper, tokSt, apiSt, mk>>

InitAuth ==
  /\ configured = FALSE
  /\ gatewayProc = 0
  /\ gatewayStarting = 0
  /\ nspawn = 0
  /\ pstat = [p \in Procs |-> "unused"]
  /\ signalled = [p \in Procs |-> FALSE]
  /\ probe = "none"
  /\ elapsed = 0
  /\ attResult = [p \in Procs |-> "none"]
  /\ probed = [p \in Procs |-> FALSE]
  /\ req = [r \in Reqs |-> IdleReq]
  /\ tokSt = TokOff
  /\ wrapper = "up"
  /\ apiSt = ApiOff
  /\ mk = MkOff
  /\ \E e \in PwEnvs :
       authSt = [phase |-> "ready", pwEnv |-> e, gate |-> "none", hdr |-> <<>>, res |-> "none"]

NextAuth ==
  \/ \E h \in Headers : RequireSetupAuthStep(h)
  \/ \E h \in Headers : CreateAuthMiddlewareStep(h)

SpecAuth == InitAuth /\ [][NextAuth]_vars

\* the credentials a Basic header carries: user-id up to the first colon,
\* password after it
HasCredentials(h) ==
  /\ SplitScheme(h) = <<"B", "a", "s", "i", "c">>
  /\ SplitEncoded(h) # <<>>
  /\ IndexOf(B64Decode(SplitEncoded(h)), ":") >= 1

CredUser(h) ==
  LET d == B64Decode(SplitEncoded(h)) IN SubSeq(d, 1, IndexOf(d, ":") - 1)

CredPass(h) ==
  LET d == B64Decode(SplitEncoded(h)) IN SubSeq(d, IndexOf(d, ":") + 1, Len(d))

\* C17: with a setup password configured (a non-empty value without
\* surrounding whitespace), a request is allowed exactly when it carries
\* Basic credentials with the user name "admin" and the configured secret;
\* every other request gets 401 with the challenge header.
C17_AuthGate ==
  (authSt.phase = "done" /\ authSt.pwEnv.set /\ authSt.pwEnv.val # <<>>
     /\ Trim(authSt.pwEnv.val) = authSt.pwEnv.val) =>
    IF /\ HasCredentials(authSt.hdr)
       /\ CredUser(authSt.hdr) = <<"a", "d", "m", "i", "n">>
       /\ CredPass(authSt.hdr) = authSt.pwEnv.val
    THEN authSt.res = "next"
    ELSE authSt.res = "401+challenge"

\* C18: with no setup password configured (unset or empty), no request to a
\* protected route passes the gate.
C18_NoPasswordRejects ==
  (authSt.phase = "done" /\ (~authSt.pwEnv.set \/ authSt.pwEnv.val = <<>>)) =>
    authSt.res \in {"500", "401+challenge"}

\* C38: with a setup password configured, a request whose Authorization
\* header is malformed (a scheme other than Basic, no credential after the
\* scheme, or a decoded credential without a colon) gets 401 with the
\* challenge header from either gate.
C38_MalformedHeaderRejected ==
  (authSt.phase = "done" /\ authSt.pwEnv.set /\ Trim(authSt.pwEnv.val) # <<>>
     /\ ~HasCredentials(authSt.hdr)) =>
    authSt.res = "401+challenge"

\* ---- the gateway token ----------------------------------------------------
\* resolveGatewayToken runs once when the wrapper process starts; the
\* process then puts the result into its own environment.  The token file
\* survives the process.  A second call inside the same process is modelled
\* too, on the environment as the start left it.

\* how many tokens the model lets the wrapper generate
MaxGen == 2

\* the token file: absent, or its content and permission bits
Absent == [exists |-> FALSE, content |-> <<>>, mode |-> "none"]
File(content, mode) == [exists |-> TRUE, content |-> content, mode |-> mode]

\* the k-th value of crypto.randomBytes(32).toString("hex"): hexadecimal
\* text, a new value each time
HexDigits == <<"1", "2", "3", "4", "5", "6", "7", "8", "9">>
GenToken(k) == <<"a", HexDigits[k]>>

\* fs.writeFileSync(tokenPath, generated, {encoding: "utf8", mode: 0o600})
\* after fs.mkdirSync: it succeeds ("ok"), fails before the file is opened
\* ("fail"), or fails after the file was opened and truncated ("truncated").
\* The mode applies only when the call creates the file.
WriteOutcomes == {"ok", "fail", "truncated"}

WriteFile(file, text, w) ==
  IF w = "fail" THEN file
  ELSE File(IF w = "ok" THEN text ELSE <<>>,
            IF file.exists THEN file.mode ELSE "0600")

\* process.env.CLAWDBOT_GATEWAY_TOKEN?.trim()
EnvTok(env) == IF env.set THEN Trim(env.val) ELSE <<>>

\* fs.readFileSync(tokenPath, "utf8").trim(), "" when the read throws
FileTok(file) == IF file.exists THEN Trim(file.content) ELSE <<>>

\* (resolveFileFirst: the token file consulted before the environment, the
\* slip C19 has to detect)
resolveFileFirst(env, file, k, w) ==
  IF FileTok(file) # <<>> THEN [ret |-> FileTok(file), file |-> file, gen |-> FALSE]
  ELSE IF EnvTok(env) # <<>> THEN [ret |-> EnvTok(env), file |-> file, gen |-> FALSE]
  ELSE [ret |-> GenToken(k), file |-> WriteFile(file, GenToken(k), w), gen |-> TRUE]

\* (resolveRewrites: a resolver that stores whatever it returns, the slip C20
\* has to detect)
resolveRewrites(env, file, k, w) ==
  IF EnvTok(env) # <<>>
  THEN [ret |-> EnvTok(env), file |-> WriteFile(file, EnvTok(env), w), gen |-> FALSE]
  ELSE IF FileTok(file) # <<>> THEN [ret |-> FileTok(file), file |-> file, gen |-> FALSE]
  ELSE [ret |-> GenToken(k), file |-> WriteFile(file, GenToken(k), w), gen |-> TRUE]

\* resolveGatewayToken on the environment value env and the token file, k
\* being the number of the value the random generator would give, w the
\* outcome of the write: the token returned, the file afterwards, and
\* whether a token was generated
resolveGatewayToken(env, file, k, w) ==
  LET envTok == EnvTok(env)
      existing == FileTok(file)
      generated == GenToken(k)
  IN  IF envTok # <<>> THEN [ret |-> envTok, file |-> file, gen |-> FALSE]
      ELSE IF existing # <<>> THEN [ret |-> existing, file |-> file, gen |-> FALSE]
      ELSE [ret |-> generated, file |-> WriteFile(file, generated, w), gen |-> TRUE]

\* the values of CLAWDBOT_GATEWAY_TOKEN the deployment may set
TokEnvs == {Unset, Val(<<" ">>), Val(<<"e">>), Val(<<" ", "e">>)}

\* the token file before the first start: none, one left with a trailing
\* newline by the operator, or one with owner-only permissions
InitFiles == {Absent, File(<<"f", "\n">>, "0644"), File(<<"f">>, "0600")}

\* the places of the running wrapper that hand the token to something else
TokSites == {"launchArg", "launchEnv", "onboardArg", "authTokenWrite", "proxyCred"}

\* startGateway: the value after "--token" in the gateway's arguments
startGatewayArgToken(st) == Val(st.tok)

\* startGateway: env: {...process.env, ...}, the variable of the running
\* process as the start assigned it
startGatewayEnvToken(st) == st.penv

\* buildOnboardArgs: the value after "--gateway-token"
buildOnboardArgsToken(st) == Val(st.tok)

\* the run handler: config set gateway.auth.token <value>
configSetAuthToken(st) == Val(st.tok)

\* httpProxy.createProxyServer({target, ws, xfwd}) and proxy.web(req, res,
\* {target}): no headers option, no proxyReq listener; the proxy adds the
\* x-forwarded-* headers and no credential
proxyCredential(st) == Unset

TokenAt(site, st) ==
  CASE site = "launchArg" -> startGatewayArgToken(st)
    [] site = "launchEnv" -> startGatewayEnvToken(st)
    [] site = "onboardArg" -> buildOnboardArgsToken(st)
    [] site = "authTokenWrite" -> configSetAuthToken(st)
    [] site = "proxyCred" -> proxyCredential(st)

NoUse == [site |-> "none", val |-> Unset]

NoCall == [call |-> "none", env |-> Unset, before |-> Absent, after |-> Absent,
           ret |-> <<>>, gen |-> FALSE, w |-> "none"]

\* the record of a call
Call(kind, env, file, res, w) ==
  [call |-> kind, env |-> env, before |-> file, after |-> res.file,
   ret |-> res.ret, gen |-> res.gen, w |-> IF res.gen THEN w ELSE "none"]

\* the wrapper process starts:
\*   const CLAWDBOT_GATEWAY_TOKEN = resolveGatewayToken();
\*   process.env.CLAWDBOT_GATEWAY_TOKEN = CLAWDBOT_GATEWAY_TOKEN;
TokBoot(w) ==
  /\ tokSt.phase = "down"
  /\ LET res == resolveGatewayToken(tokSt.depEnv, tokSt.file, tokSt.ngen + 1, w) IN
       /\ res.gen => tokSt.ngen < MaxGen
       /\ tokSt' = [tokSt EXCEPT !.phase = "up",
                                 !.penv = Val(res.ret),
                                 !.tok = res.ret,
                                 !.file = res.file,
                                 !.ngen = IF res.gen THEN tokSt.ngen + 1 ELSE tokSt.ngen,
                                 !.last = Call("boot", tokSt.depEnv, tokSt.file, res, w)]
  /\ UNCHANGED <<Others, req, wrapper, authSt, apiSt, mk>>

\* resolveGatewayToken called once more in the running process
TokResolveAgain(w) ==
  /\ tokSt.phase = "up"
  /\ LET res == resolveGatewayToken(tokSt.penv, tokSt.file, tokSt.ngen + 1, w) IN
       /\ res.gen => tokSt.ngen < MaxGen
       /\ tokSt' = [tokSt EXCEPT !.file = res.file,
                                 !.ngen = IF res.gen THEN tokSt.ngen + 1 ELSE tokSt.ngen,
                                 !.last = Call("again", tokSt.penv, tokSt.file, res, w)]
  /\ UNCHANGED <<Others, req, wrapper, authSt, apiSt, mk>>

\* the running wrapper hands the token over at one of its sites: a gateway
\* launch, an onboarding run, the gateway.auth.token write, a forwarded
\* request
TokUse(site) ==
  /\ tokSt.phase = "up"
  /\ tokSt' = [tokSt EXCEPT !.use = [site |-> site, val |-> TokenAt(site, tokSt)]]
  /\ UNCHANGED <<Others, req, wrapper, authSt, apiSt, mk>>

\* the wrapper process ends; the deployment may change the variable before
\* the next start
TokStop(env) ==
  /\ tokSt.phase = "up"
  /\ tokSt' = [tokSt EXCEPT !.phase = "down", !.depEnv = env, !.penv = Unset,
                            !.tok = <<>>, !.use = NoUse]
  /\ UNCHANGED <<Others, req, wrapper, authSt, apiSt, mk>>

InitToken ==
  /\ configured = FALSE
  /\ gatewayProc = 0
  /\ gatewayStarting = 0
  /\ nspawn = 0
  /\ pstat = [p \in Procs |-> "unused"]
  /\ signalled = [p \in Procs |-> FALSE]
  /\ probe = "none"
  /\ elapsed = 0
  /\ attResult = [p \in Procs |-> "none"]
  /\ probed = [p \in Procs |-> FALSE]
  /\ req = [r \in Reqs |-> IdleReq]
  /\ authSt = AuthOff
  /\ wrapper = "up"
  /\ apiSt = ApiOff
  /\ mk = MkOff
  /\ \E env \in TokEnvs, file \in InitFiles :
       tokSt = [phase |-> "down", depEnv |-> env, penv |-> Unset, tok |-> <<>>,
                file |-> file, ngen |-> 0, last |-> NoCall, use |-> NoUse]

NextToken ==
  \/ \E w \in WriteOutcomes : TokBoot(w)
  \/ \E w \in WriteOutcomes : TokResolveAgain(w)
  \/ \E site \in TokSites : TokUse(site)
  \/ \E env \in TokEnvs : TokStop(env)

SpecToken == InitToken /\ [][NextToken]_vars

C20_PersistedTokenStable ==
  [][ /\ (tokSt.phase # "off" /\ tokSt'.phase # "off" /\ FileTok(tokSt.file) # <<>>) =>
           /\ tokSt'.file = tokSt.file
           /\ tokSt'.ngen = tokSt.ngen
           /\ ((tokSt'.last # tokSt.last /\ EnvTok(tokSt'.last.env) = <<>>) =>
                 tokSt'.last.ret = FileTok(tokSt.file))
      /\ (tokSt.phase = "down" /\ tokSt'.phase = "up"
            /\ tokSt'.last.gen /\ tokSt'.last.w = "ok") =>
           FileTok(tokSt'.file) = tokSt'.tok
      /\ (tokSt.phase = "up" /\ tokSt'.phase = "up") =>
           (tokSt'.last.ret = tokSt.tok /\ tokSt'.tok = tokSt.tok)
    ]_vars

\* a token generated and stored by an earlier run was read back by a later
\* start and by a repeated call in that run
C20_Witness ==
  /\ tokSt.phase = "up"
  /\ tokSt.last.call = "again"
  /\ tokSt.ngen = 1
  /\ tokSt.tok = GenToken(1)
  /\ tokSt.last.ret = GenToken(1)
  /\ tokSt.file = File(GenToken(1), "0600")
  /\ tokSt.depEnv = Val(<<" ">>)

\* C21: in a running wrapper every site that hands the token over (each
\* gateway launch by argument and by environment, the onboarding invocation,
\* the gateway.auth.token write, and the credential the proxy attaches to
\* forwarded traffic) carries the token the start resolved.
C21_SingleTokenEverywhere ==
  (tokSt.phase = "up" /\ tokSt.use.site # "none") => tokSt.use.val = Val(tokSt.tok)

\* C24: a successful reset leaves isConfigured() false in the same step; the
\* request that arrives right after it, with the file still absent, is
\* redirected to setup when it is a non-setup request, and executes the
\* onboarding tool (no "Already configured" answer, no ensureGatewayRunning)
\* when it is an authorised onboarding run.
C24_ResetReturnsToSetup ==
  /\ \A r \in Reqs :
       (req[r].kind = "reset" /\ req[r].pc = "resp200"
          /\ \A q \in Reqs : (q > r => req[q].pc = "idle") /\ req[q].pc # "onboard")
         => ~configured
  /\ \A r \in Reqs :
       IF r = 1 THEN TRUE
       ELSE (req[r - 1].kind = "reset" /\ req[r - 1].pc = "resp200" /\ ~req[r].confArr) =>
              /\ (req[r].kind = "http" /\ ~UnderSetupMount(req[r].path))
                   => req[r].pc = "redirected"
              /\ (req[r].kind = "run" /\ req[r].pc # "auth401")
                   => (req[r].body # "Already configured"
                       /\ (req[r].pc = "onboard" \/ req[r].out # "none"))

\* C30: the exit of a gateway child other than the one the handle refers to
\* leaves the handle as it is.
C30_StaleExitKeepsHandle ==
  [][ \A p \in Procs :
        (pstat[p] = "alive" /\ pstat'[p] = "exited" /\ gatewayProc # p)
          => gatewayProc' = gatewayProc
    ]_vars

\* C22: when the connection to the gateway fails for a forwarded request
\* (the only way the wrapper itself ends a forwarded request), the request
\* is answered with 502 or 503.
C22_ProxyErrorAnswered ==
  [][ \A r \in Reqs :
        (req[r].kind = "http" /\ req[r].pc = "forwarded"
           /\ req'[r].pc # "forwarded" /\ wrapper' = "up")
          => req'[r].pc \in {"resp502", "resp503"}
    ]_vars

\* C23: when the wrapper exits on SIGTERM, every live gateway child had been
\* sent SIGTERM in an earlier step (the grace period lies between the two).
C23_GraceBeforeExit ==
  [][ (wrapper = "up" /\ wrapper' = "exited") =>
        \A p \in Procs : pstat[p] = "alive" => signalled[p]
    ]_vars

\* ------------------------------------------------------------------
\* The setup API handlers and the request body (specification SpecApi).
\* apiSt holds the request the wrapper handled last: what the client sent,
\* how often and with which arguments the command-line tool was started,
\* what the tool did, what was answered, and what the gateway received.

\* JavaScript's !v for undefined and for a string
Falsy(v) == ~v.set \/ v.val = <<>>

\* how the command-line tool ends: exit code 0, exit code 1, killed by a
\* signal (close with code null), or the spawn itself fails
ToolOutcomes == {"exit0", "exit1", "signal", "spawnError"}

\* what the tool printed on stdout and stderr
ToolOutputs == {<<>>, <<"o">>}

\* runCmd: resolves {code, output}; a spawn error gives 127 and appends the
\* error text, a close gives code ?? 0
runCmd(outcome, out) ==
  CASE outcome = "spawnError" -> [code |-> 127, output |-> out \o <<"\n[spawn error]\n">>]
    [] outcome = "signal" -> [code |-> 0, output |-> out]
    [] outcome = "exit0" -> [code |-> 0, output |-> out]
    [] outcome = "exit1" -> [code |-> 1, output |-> out]

NoPayload == [flow |-> Unset, authChoice |-> Unset, authSecret |-> Unset]
NoGw == [method |-> "none", ctype |-> "none", clen |-> 0, body |-> <<>>]

ApiIdle ==
  [phase |-> "idle", op |-> "none", variant |-> "none",
   chan |-> Unset, code |-> Unset, payload |-> NoPayload,
   ninv |-> 0, args |-> <<>>, outcome |-> "none", tout |-> <<>>,
   status |-> 0, ok |-> FALSE, output |-> <<>>,
   method |-> "none", ctype |-> "none", sent |-> <<>>,
   forwarded |-> FALSE, gw |-> NoGw]

\* the channel and the code a client may send
Channels == {Unset, Val(<<>>), Val(<<"discord">>)}
Codes == {Unset, Val(<<>>), Val(<<"K7">>)}

\* POST /setup/api/pairing/approve of the http-proxy variant, up to the
\* start of the tool
PairingApprove(ch, cd) ==
  /\ apiSt.phase # "tool"
  /\ apiSt' =
       IF Falsy(ch) \/ Falsy(cd)
       THEN [ApiIdle EXCEPT !.phase = "done", !.op = "pairing", !.variant = "httpProxy",
                            !.chan = ch, !.code = cd, !.status = 400]
       ELSE [ApiIdle EXCEPT !.phase = "tool", !.op = "pairing", !.variant = "httpProxy",
                            !.chan = ch, !.code = cd,
                            !.ninv = 1, !.args = <<ch.val, cd.val>>]
  /\ UNCHANGED <<Others, req, wrapper, authSt, tokSt, mk>>

\* POST /api/setup/pairing/approve of the marker-file variant, up to the
\* start of the tool
PairingApproveMarker(ch, cd) ==
  /\ apiSt.phase # "tool"
  /\ apiSt' =
       IF Falsy(cd)
       THEN [ApiIdle EXCEPT !.phase = "done", !.op = "pairing", !.variant = "marker",
                            !.chan = ch, !.code = cd, !.status = 400]
       ELSE [ApiIdle EXCEPT !.phase = "tool", !.op = "pairing", !.variant = "marker",
                            !.chan = ch, !.code = cd,
                            !.ninv = 1,
                            !.args = <<IF Falsy(ch) THEN <<"telegram">> ELSE ch.val, cd.val>>]
  /\ UNCHANGED <<Others, req, wrapper, authSt, tokSt, mk>>

\* the tool started by a pairing request ends and the request is answered.
\* http-proxy variant: status and ok from runCmd's code.  Marker-file
\* variant: the answer is sent on "close" with ok: exitCode === 0; the child
\* has no "error" listener, so a failed spawn raises an uncaught exception,
\* which the process-wide handler logs; whether "close" still follows
\* depends on where the emit threw, so the request is either left
\* unanswered or answered with ok false.
PairingClose(outcome, out) ==
  /\ apiSt.phase = "tool"
  /\ apiSt.op = "pairing"
  /\ apiSt' \in
       IF apiSt.variant = "httpProxy"
       THEN LET r == runCmd(outcome, out) IN
            {[apiSt EXCEPT !.phase = "done", !.outcome = outcome, !.tout = out,
                           !.status = IF r.code = 0 THEN 200 ELSE 500,
                           !.ok = (r.code = 0), !.output = r.output]}
       ELSE {[apiSt EXCEPT !.phase = "done", !.outcome = outcome, !.tout = out,
                           !.status = 200,
                           !.ok = (outcome = "exit0"), !.output = out]}
            \cup (IF outcome = "spawnError"
                  THEN {[apiSt EXCEPT !.phase = "unanswered", !.outcome = outcome,
                                      !.tout = out]}
                  ELSE {})
  /\ UNCHANGED <<Others, req, wrapper, authSt, tokSt, mk>>

\* the flag buildOnboardArgs has for a provider choice
AuthFlag(choice) ==
  CASE choice = <<"openai-api-key">> -> <<"--openai-api-key">>
    [] choice = <<"apiKey">> -> <<"--anthropic-api-key">>
    [] choice = <<"openrouter-api-key">> -> <<"--openrouter-api-key">>
    [] choice = <<"gemini-api-key">> -> <<"--gemini-api-key">>
    [] choice = <<"zai-api-key">> -> <<"--zai-api-key">>
    [] choice = <<"groq-api-key">> -> <<"--groq-api-key">>
    [] OTHER -> <<>>

\* buildOnboardArgs(payload): the fixed arguments, the flow, and, when a
\* provider choice is given, the choice and (for a known choice with a
\* non-blank secret) the credential
buildOnboardArgs(payload) ==
  LET fixed == << <<"onboard">>, <<"--non-interactive">>, <<"--accept-risk">>, <<"--json">>,
                  <<"--no-install-daemon">>, <<"--skip-health">>,
                  <<"--workspace">>, <<"WORKSPACE_DIR">>,
                  <<"--gateway-bind">>, <<"loopback">>,
                  <<"--gateway-port">>, <<"INTERNAL_GATEWAY_PORT">>,
                  <<"--gateway-auth">>, <<"token">>,
                  <<"--gateway-token">>, <<"CLAWDBOT_GATEWAY_TOKEN">>,
                  <<"--flow">>,
                  IF Falsy(payload.flow) THEN <<"quickstart">> ELSE payload.flow.val >>
      secret == IF payload.authSecret.set THEN Trim(payload.authSecret.val) ELSE <<>>
      flag == IF payload.authChoice.set THEN AuthFlag(payload.authChoice.val) ELSE <<>>
  IN  IF Falsy(payload.authChoice) THEN fixed
      ELSE fixed \o << <<"--auth-choice">>, payload.authChoice.val >>
                 \o (IF flag # <<>> /\ secret # <<>> THEN <<flag, secret>> ELSE <<>>)

\* the payloads a client may post to /setup/api/run
Payloads ==
  [flow : {Unset, Val(<<"manual">>)},
   authChoice : {Unset, Val(<<"apiKey">>), Val(<<"custom">>)},
   authSecret : {Unset, Val(<<" ">>), Val(<<"s">>)}]

\* provider selection and provider credential are present
PayloadComplete(payload) ==
  /\ ~Falsy(payload.authChoice)
  /\ payload.authSecret.set
  /\ Trim(payload.authSecret.val) # <<>>

\* POST /setup/api/run by an authorised client on an unconfigured wrapper,
\* up to the start of the onboarding tool (what follows the tool's exit is
\* OnboardExit)
RunOnboard(payload) ==
  /\ apiSt.phase # "tool"
  /\ ~configured
  /\ apiSt' = [ApiIdle EXCEPT !.phase = "spawned", !.op = "run",
                              !.payload = payload,
                              !.ninv = 1, !.args = buildOnboardArgs(payload)]
  /\ UNCHANGED <<Others, req, wrapper, authSt, tokSt, mk>>

\* runCmd(onboard) of that run resolves, the tool having created the
\* configuration file or not (a tool that could not be spawned has not):
\* ok = onboard.code === 0 && isConfigured(); when ok the handler starts the
\* first follow-up `config set`, otherwise it answers 500 with the output
RunOnboardClose(outcome, out, wrote) ==
  /\ apiSt.phase = "spawned"
  /\ apiSt.op = "run"
  /\ outcome = "spawnError" => ~wrote
  /\ configured' = wrote
  /\ LET r == runCmd(outcome, out)
         ok == r.code = 0 /\ wrote
     IN  apiSt' = [apiSt EXCEPT !.phase = IF ok THEN "cfgset" ELSE "done",
                                !.outcome = outcome, !.tout = out,
                                !.ok = ok,
                                !.status = IF ok THEN 0 ELSE 500,
                                !.output = IF ok THEN <<>> ELSE r.output]
  /\ UNCHANGED <<gatewayProc, gatewayStarting, nspawn, pstat, signalled,
                 probe, elapsed, attResult, probed>>
  /\ UNCHANGED <<req, wrapper, authSt, tokSt, mk>>

\* what a client may send to a proxied path
Methods == {"GET", "POST"}
ContentTypes == {"application/json", "text/plain", "none"}
Bodies == {<<>>, <<"{", "}">>, <<"[", "]">>, <<"{">>, <<"x">>}

\* JSON.parse in the strict mode of express.json(): the text must be an
\* object or an array
JsonParses(text) == text \in {<<"{", "}">>, <<"[", "]">>}

\* express.json(): a request of type application/json has its stream read to
\* the end; an empty body gives {}, text that does not parse a 400.  What is
\* left on the stream for a later reader.
expressJson(ctype, body) ==
  IF ctype # "application/json" THEN [pass |-> TRUE, rest |-> body]
  ELSE IF body = <<>> THEN [pass |-> TRUE, rest |-> <<>>]
  ELSE IF JsonParses(body) THEN [pass |-> TRUE, rest |-> <<>>]
  ELSE [pass |-> FALSE, rest |-> <<>>]

\* a request to a proxied path of a configured wrapper whose gateway is
\* running: express.json(), then the catch-all's proxy.web(req, res), which
\* sends the method and the headers of req and pipes what its stream still
\* holds
ProxyRequest(method, ctype, body) ==
  /\ apiSt.phase # "tool"
  /\ configured
  /\ LET j == expressJson(ctype, body) IN
       apiSt' =
         IF ~j.pass
         THEN [ApiIdle EXCEPT !.phase = "done", !.op = "proxy", !.method = method,
                              !.ctype = ctype, !.sent = body, !.status = 400]
         ELSE [ApiIdle EXCEPT !.phase = "done", !.op = "proxy", !.method = method,
                              !.ctype = ctype, !.sent = body,
                              !.forwarded = TRUE,
                              !.gw = [method |-> method, ctype |-> ctype,
                                      clen |-> Len(body), body |-> j.rest]]
  /\ UNCHANGED <<Others, req, wrapper, authSt, tokSt, mk>>

InitApi ==
  /\ configured \in BOOLEAN
  /\ gatewayProc = 0
  /\ gatewayStarting = 0
  /\ nspawn = 0
  /\ pstat = [p \in Procs |-> "unused"]
  /\ signalled = [p \in Procs |-> FALSE]
  /\ probe = "none"
  /\ elapsed = 0
  /\ attResult = [p \in Procs |-> "none"]
  /\ probed = [p \in Procs |-> FALSE]
  /\ req = [r \in Reqs |-> IdleReq]
  /\ authSt = AuthOff
  /\ tokSt = TokOff
  /\ wrapper = "up"
  /\ mk = MkOff
  /\ apiSt = ApiIdle

NextApi ==
  \/ \E ch \in Channels, cd \in Codes : PairingApprove(ch, cd)
  \/ \E ch \in Channels, cd \in Codes : PairingApproveMarker(ch, cd)
  \/ \E outcome \in ToolOutcomes, out \in ToolOutputs : PairingClose(outcome, out)
  \/ \E payload \in Payloads : RunOnboard(payload)
  \/ \E outcome \in ToolOutcomes, out \in ToolOutputs, wrote \in BOOLEAN :
       RunOnboardClose(outcome, out, wrote)
  \/ \E method \in Methods, ctype \in ContentTypes, body \in Bodies :
       ProxyRequest(method, ctype, body)

SpecApi == InitApi /\ [][NextApi]_vars

\* C25: an answered pairing approval that lacked the channel or the code was
\* answered 400 with no tool invocation; any other was answered after
\* exactly one invocation, with that channel and code, ok being true exactly
\* when the tool exited with code 0, and the output being what the tool
\* printed.
C25_PairingApproval ==
  (apiSt.phase = "done" /\ apiSt.op = "pairing") =>
    IF Falsy(apiSt.chan) \/ Falsy(apiSt.code)
    THEN apiSt.status = 400 /\ apiSt.ninv = 0
    ELSE /\ apiSt.ninv = 1
         /\ apiSt.args = <<apiSt.chan.val, apiSt.code.val>>
         /\ apiSt.ok = (apiSt.outcome = "exit0")
         /\ (apiSt.outcome # "spawnError" => apiSt.output = apiSt.tout)

\* C27: an onboarding request whose payload lacks the provider selection or
\* the provider credential does not start the onboarding tool.
C27_PayloadValidated ==
  (apiSt.op = "run" /\ ~PayloadComplete(apiSt.payload)) => apiSt.ninv = 0

\* C28: the gateway receives the method, the content type and the body the
\* client sent with every forwarded request.
C28_BodyPreserved ==
  (apiSt.op = "proxy" /\ apiSt.forwarded) =>
    /\ apiSt.gw.method = apiSt.method
    /\ apiSt.gw.ctype = apiSt.ctype
    /\ apiSt.gw.body = apiSt.sent

\* ------------------------------------------------------------------
\* The marker-file variant (specification SpecMarker).  mk holds the data
\* volume (the .setup_complete marker and the .env file), the mode the
\* wrapper booted into, the setup and reset requests in flight, the pending
\* timers, the moltbot child and the last answer to a request for "/".

\* how many setup requests the model lets one run of the wrapper receive
MaxSetup == 2
SetupReqs == 1..MaxSetup

\* the two versions of the variant: part_002, and the later half of
\* src/server.js
MkVariants == {"part002", "server"}

\* fs.writeFile resolves ("ok"), rejects before the file exists or is
\* touched ("fail"), or rejects after it created or truncated the file
\* ("partial")
FsOutcomes == {"ok", "fail", "partial"}

NoPage == [page |-> "none", status |-> 0, alive |-> FALSE, elapsed |-> FALSE]
NoHealth == [moltbotReady |-> FALSE, moltbot |-> "none", alive |-> FALSE]
NoPrev == [mode |-> "none", sreq |-> [r \in SetupReqs |-> "idle"]]

\* the wrapper process not running, on a volume with the given files
MkDown(variant, marker, env, prev) ==
  [phase |-> "down", variant |-> variant, marker |-> marker, env |-> env,
   sreq |-> [r \in SetupReqs |-> "idle"], exitBy |-> {},
   rst |-> "idle", rstTimer |-> FALSE, sigTimer |-> FALSE,
   moltbot |-> "none", killed |-> FALSE, ready |-> FALSE, readyTimer |-> FALSE,
   last |-> NoPage, health |-> NoHealth, prev |-> prev]

MainRest == <<Others, req, wrapper, authSt, tokSt, apiSt>>

\* startApp: isSetup = await fs.pathExists(CONFIG_MARKER); with the marker,
\* application mode: moltbot is spawned (the spawn may fail) and the 5 s
\* readiness timer is set; without it, setup mode
startApp(spawned) ==
  /\ mk.phase = "down"
  /\ mk' = IF mk.marker
           THEN [mk EXCEPT !.phase = "app",
                           !.moltbot = IF spawned THEN "alive" ELSE "dead",
                           !.readyTimer = TRUE]
           ELSE [mk EXCEPT !.phase = "setup"]
  /\ UNCHANGED MainRest

\* POST /api/setup up to its first await: the .env content is built from
\* the body and fs.writeFile(.env) is started
SetupArrive(r) ==
  /\ mk.phase = "setup"
  /\ mk.sreq[r] = "idle"
  /\ mk' = [mk EXCEPT !.sreq[r] = "envWrite"]
  /\ UNCHANGED MainRest

\* (EnvWriteDoneKeepsGoing: a handler that goes on to the marker write when
\* the .env write failed, the slip C29 has to detect)
EnvWriteDoneKeepsGoing(r, w) ==
  /\ mk.phase = "setup"
  /\ mk.sreq[r] = "envWrite"
  /\ mk' = [mk EXCEPT !.env = (w # "fail") \/ mk.env,
                      !.sreq[r] = "markerWrite"]
  /\ UNCHANGED MainRest

\* the .env write of a setup request settles: resolved, the handler starts
\* fs.writeFile(CONFIG_MARKER); rejected, the catch answers 500
EnvWriteDone(r, w) ==
  /\ mk.phase = "setup"
  /\ mk.sreq[r] = "envWrite"
  /\ mk' = [mk EXCEPT !.env = (w # "fail") \/ mk.env,
                      !.sreq[r] = IF w = "ok" THEN "markerWrite" ELSE "err"]
  /\ UNCHANGED MainRest

\* the marker write of a setup request settles: resolved, the handler
\* answers success and sets the 1 s exit timer; rejected, the catch answers
\* 500
MarkerWriteDone(r, w) ==
  /\ mk.phase = "setup"
  /\ mk.sreq[r] = "markerWrite"
  /\ mk' = [mk EXCEPT !.marker = (w # "fail") \/ mk.marker,
                      !.sreq[r] = IF w = "ok" THEN "ok" ELSE "err",
                      !.exitBy = IF w = "ok" THEN mk.exitBy \cup {r} ELSE mk.exitBy]
  /\ UNCHANGED MainRest

\* POST /api/setup/reset of application mode up to its await:
\* fs.remove(CONFIG_MARKER) is started
MkResetArrive ==
  /\ mk.phase = "app"
  /\ mk.rst \in {"idle", "ok", "err"}
  /\ mk' = [mk EXCEPT !.rst = "removing"]
  /\ UNCHANGED MainRest

\* the removal settles: resolved, success is answered and the 1 s exit
\* timer set; rejected, 500
MkResetDone(removed) ==
  /\ mk.phase = "app"
  /\ mk.rst = "removing"
  /\ mk' = [mk EXCEPT !.marker = IF removed THEN FALSE ELSE mk.marker,
                      !.rst = IF removed THEN "ok" ELSE "err",
                      !.rstTimer = removed \/ mk.rstTimer]
  /\ UNCHANGED MainRest

\* the readiness timer of application mode fires: moltbotReady = true
ReadyTimer ==
  /\ mk.phase = "app"
  /\ mk.readyTimer
  /\ mk' = [mk EXCEPT !.readyTimer = FALSE, !.ready = TRUE]
  /\ UNCHANGED MainRest

\* the moltbot child exits; part_002's exit listener sets moltbotReady =
\* false, the listener of src/server.js only logs
MoltbotExit ==
  /\ mk.phase = "app"
  /\ mk.moltbot = "alive"
  /\ mk' = [mk EXCEPT !.moltbot = "dead",
                      !.ready = IF mk.variant = "part002" THEN FALSE ELSE mk.ready]
  /\ UNCHANGED MainRest

\* the answer to GET / in the state st: the wizard in setup mode; in
\* application mode the placeholder (200 in part_002 while !moltbotReady,
\* 503 in src/server.js while !moltbotReady or moltbotProcess.killed), and
\* otherwise what the proxy gives: the gateway's answer, or its error answer
\* when the connection fails (502 from onError in part_002, 504 from the
\* middleware's default in src/server.js)
RootPage(st) ==
  LET alive == st.moltbot = "alive"
      past == ~st.readyTimer
      ans(page, status) == [page |-> page, status |-> status,
                            alive |-> alive, elapsed |-> past]
  IN  IF st.phase = "setup" THEN ans("wizard", 200)
      ELSE IF st.variant = "part002"
      THEN IF ~st.ready THEN ans("placeholder", 200)
           ELSE IF alive THEN ans("proxied", 200) ELSE ans("error", 502)
      ELSE IF ~st.ready \/ st.killed THEN ans("placeholder", 503)
           ELSE IF alive THEN ans("proxied", 200) ELSE ans("error", 504)

GetRoot ==
  /\ mk.phase \in {"setup", "app"}
  /\ mk' = [mk EXCEPT !.last = RootPage(mk)]
  /\ UNCHANGED MainRest

\* GET /health: moltbotReady, and services.moltbot = moltbotProcess &&
\* !moltbotProcess.killed ? "running" : "stopped" (moltbotProcess is set once
\* the spawn call returned, killed once the wrapper has signalled the
\* child); alive records whether the child was alive at the answer
MkHealth ==
  /\ mk.phase \in {"setup", "app"}
  /\ mk' = [mk EXCEPT !.health =
                [moltbotReady |-> mk.ready,
                 moltbot |-> IF mk.moltbot # "none" /\ ~mk.killed
                             THEN "running" ELSE "stopped",
                 alive |-> mk.moltbot = "alive"]]
  /\ UNCHANGED MainRest

\* SIGTERM or SIGINT: the children are sent SIGTERM and the 1 s exit timer
\* is set
MkShutdown ==
  /\ mk.phase \in {"setup", "app"}
  /\ ~mk.sigTimer
  /\ mk' = [mk EXCEPT !.killed = (mk.moltbot = "alive") \/ mk.killed,
                      !.sigTimer = TRUE]
  /\ UNCHANGED MainRest

\* an exit timer fires: process.exit(0); the files stay, everything else is
\* gone.  A file operation still in flight may or may not have reached the
\* disk.
ExitTimer ==
  /\ mk.phase \in {"setup", "app"}
  /\ mk.exitBy # {} \/ mk.rstTimer \/ mk.sigTimer
  /\ \E env \in {mk.env} \cup {TRUE : r \in {q \in SetupReqs : mk.sreq[q] = "envWrite"}},
        marker \in {mk.marker}
                     \cup {TRUE : r \in {q \in SetupReqs : mk.sreq[q] = "markerWrite"}}
                     \cup {FALSE : x \in {y \in {mk.rst} : y = "removing"}} :
       mk' = MkDown(mk.variant, marker, env, [mode |-> mk.phase, sreq |-> mk.sreq])
  /\ UNCHANGED MainRest

\* the volume is new, or was configured, or was configured and reset
InitMarker ==
  /\ configured = FALSE
  /\ gatewayProc = 0
  /\ gatewayStarting = 0
  /\ nspawn = 0
  /\ pstat = [p \in Procs |-> "unused"]
  /\ signalled = [p \in Procs |-> FALSE]
  /\ probe = "none"
  /\ elapsed = 0
  /\ attResult = [p \in Procs |-> "none"]
  /\ probed = [p \in Procs |-> FALSE]
  /\ req = [r \in Reqs |-> IdleReq]
  /\ authSt = AuthOff
  /\ tokSt = TokOff
  /\ apiSt = ApiOff
  /\ wrapper = "up"
  /\ \E variant \in MkVariants, marker \in BOOLEAN, env \in BOOLEAN :
       /\ marker => env
       /\ mk = MkDown(variant, marker, env, NoPrev)

NextMarker ==
  \/ \E spawned \in BOOLEAN : startApp(spawned)
  \/ \E r \in SetupReqs : SetupArrive(r)
  \/ \E r \in SetupReqs, w \in FsOutcomes : EnvWriteDone(r, w)
  \/ \E r \in SetupReqs, w \in FsOutcomes : MarkerWriteDone(r, w)
  \/ MkResetArrive
  \/ \E removed \in BOOLEAN : MkResetDone(removed)
  \/ ReadyTimer
  \/ MoltbotExit
  \/ GetRoot
  \/ MkHealth
  \/ MkShutdown
  \/ ExitTimer

SpecMarker == InitMarker /\ [][NextMarker]_vars

\* C26: the "starting" placeholder is the answer to a request for the root
\* path only while the moltbot process is alive and the readiness bound has
\* not elapsed; once the bound has elapsed a dead moltbot gives an error
\* answer.
C26_PlaceholderBounded ==
  /\ mk.last.page = "placeholder" => (mk.last.alive /\ ~mk.last.elapsed)
  /\ (mk.phase = "app" /\ mk.last.page # "none"
        /\ mk.last.elapsed /\ ~mk.last.alive) => mk.last.page = "error"

\* C29: the wrapper boots into the setup wizard exactly when it finds no
\* marker; a setup request answers success only in the step that wrote the
\* marker, with the .env file written before, and that step sets the exit
\* timer; the marker is written only by a request whose .env write had
\* succeeded; a request that ends in an error sets no exit timer and does
\* not end the process; the marker never exists without the .env file; and
\* a run that exits after a successful setup leaves the marker, so the next
\* start is in application mode.
C29_SetupThenMarkerThenExit ==
  [][ /\ (mk.phase = "down" /\ mk'.phase # "down") =>
           mk'.phase = (IF mk.marker THEN "app" ELSE "setup")
      /\ \A r \in SetupReqs :
           /\ (mk.sreq[r] # "ok" /\ mk'.sreq[r] = "ok") =>
                (mk.sreq[r] = "markerWrite" /\ mk.env /\ mk'.env /\ mk'.marker
                   /\ mk'.exitBy = mk.exitBy \cup {r} /\ mk'.phase = "setup")
           /\ (mk.sreq[r] # "markerWrite" /\ mk'.sreq[r] = "markerWrite") =>
                (mk.sreq[r] = "envWrite" /\ mk'.env)
           /\ (mk.sreq[r] # "err" /\ mk'.sreq[r] = "err") =>
                (mk'.exitBy = mk.exitBy /\ mk'.phase = mk.phase)
      /\ (~mk.marker /\ mk'.marker) =>
           \E r \in SetupReqs : mk.sreq[r] = "markerWrite" /\ mk.env
      /\ mk'.marker => mk'.env
      /\ (mk.phase = "setup" /\ mk'.phase = "down" /\ mk.exitBy # {}) => mk'.marker
    ]_vars

\* a run in setup mode had one request fail and one succeed, exited, and
\* the next start is in application mode
C29_Witness ==
  /\ mk.phase = "app"
  /\ mk.prev.mode = "setup"
  /\ \E r, q \in SetupReqs : mk.prev.sreq[r] = "ok" /\ mk.prev.sreq[q] = "err"
  /\ mk.marker
  /\ mk.env

\* ------------------------------------------------------------------
\* Further properties of the supervisor and the router (specification Spec).

\* C31: while an onboarding run that succeeded is still making its follow-up
\* configuration writes, no step spawns a gateway process.
C31_NoSpawnBeforeWritesDone ==
  [][ (\E r \in Reqs : req[r].pc = "cfgset" /\ req'[r].pc = "cfgset")
        => nspawn' = nspawn
    ]_vars

\* C32: every HTTP request and every WebSocket upgrade that was handed to
\* the gateway target was handed over while the configuration file existed.
C32_NoForwardWhileUnconfigured ==
  \A r \in Reqs :
    (req[r].kind \in {"http", "ws"} /\ req[r].pc = "forwarded") => req[r].fwdConf

\* C33: at most one onboarding run is between the start of the onboarding
\* tool and the end of its follow-up writes.
C33_OneOnboardingInFlight ==
  Cardinality({r \in Reqs : req[r].pc \in {"onboard", "cfgset"}}) <= 1

C36_OnlyExitZeroIsSuccess ==
  (apiSt.phase # "off" /\ apiSt.op = "run" /\ apiSt.outcome # "none") =>
    (apiSt.ok => apiSt.outcome = "exit0")

\* C37: an upgrade that arrives with the configuration file absent is
\* destroyed without an ensureGatewayRunning call; an upgrade whose
\* ensureGatewayRunning threw is destroyed; an upgrade is destroyed for no
\* other reason; and an upgrade is handed to the gateway target only when it
\* arrived configured and its ensureGatewayRunning returned ok.
C37_UpgradeGated ==
  \A r \in Reqs :
    req[r].kind = "ws" =>
      /\ req[r].pc \in {"awaiting", "destroyed", "forwarded"}
      /\ (~req[r].confArr => (req[r].pc = "destroyed" /\ req[r].ens = "none"))
      /\ (req[r].ensRes \in {"err", "notok"} => req[r].pc = "destroyed")
      /\ (req[r].pc = "destroyed" => (~req[r].confArr \/ req[r].ensRes = "err"))
      /\ (req[r].pc = "forwarded" => (req[r].confArr /\ req[r].ensRes = "ok"))

\* one upgrade was destroyed because the start attempt it waited for timed
\* out, and another was forwarded after its ensureGatewayRunning returned ok
C37_Witness ==
  \E r, q \in Reqs :
    /\ req[r].kind = "ws" /\ req[r].pc = "destroyed" /\ req[r].ensRes = "err"
    /\ req[q].kind = "ws" /\ req[q].pc = "forwarded" /\ req[q].ensRes = "ok"

\* C39: in the marker-file variant moltbotReady is true only while the
\* moltbot child is alive, and no answer of GET /health reports moltbot as
\* ready or as running when the child was not alive at that answer.
C39_ReadyOnlyWhileAlive ==
  mk.phase # "off" =>
    /\ (mk.ready => mk.moltbot = "alive")
    /\ ((mk.health.moltbot = "running" \/ mk.health.moltbotReady) => mk.health.alive)

====
